---- MODULE Spec2Model ----
\* A model of the RPC dispatch core in src/rpc/server.go: the service
\* registry (Register / RegisterName / register), the method validator
\* (suitableMethods), the dispatcher (Call) and the Request / Response free
\* lists (freeRequest, getResponse, freeResponse), run by concurrent
\* goroutines on one Server.
\*
\* Strings are sequences of one-character strings, so that strings.Split and
\* the first-rune test of isExported are computed, not assumed.
EXTENDS Integers, Sequences, FiniteSets, TLC

\* ------------------------------------------------------------------ bounds
NumProcs == 2       \* goroutines using the Server
MaxRegs == 2        \* register invocations in one behaviour
MaxOps == 3         \* operations in one behaviour of Spec
MaxResp == 2        \* Response objects ever allocated
MaxReq == 1         \* Request objects ever handed to freeRequest
MaxRouteLen == 3    \* length of the routes enumerated by SpecRoute
MaxParams == 3      \* explicit parameters of the methods given to the validator
MaxOuts == 2        \* results of the methods given to the validator

Procs == 1..NumProcs
NoProc == 0
Nil == 0

\* ------------------------------------------------------- protocol constants
HandlerResponse == 1
HandlerPush == 2
RemoteResponse == 3
SysRpc == 1
UserRpc == 2

\* --------------------------------------------------------------- strings
Sep == "."
UpperChars == {"A", "B", "C", "D", "E", "M", "N", "R", "S", "U", "V"}

\* unicode.IsUpper on the first rune; the empty string decodes to RuneError.
isExported(name) == name # <<>> /\ Head(name) \in UpperChars

RECURSIVE SplitAcc(_, _, _)
SplitAcc(s, cur, acc) ==
    IF s = <<>> THEN Append(acc, cur)
    ELSE IF Head(s) = Sep THEN SplitAcc(Tail(s), <<>>, Append(acc, cur))
    ELSE SplitAcc(Tail(s), Append(cur, Head(s)), acc)

\* Mutant of Split: empty segments are dropped.
Split_SkipEmpty(s) == SelectSeq(SplitAcc(s, <<>>, <<>>), LAMBDA x : x # <<>>)

\* strings.Split(s, "."): the segments between separators, empty ones kept.
Split(s) == SplitAcc(s, <<>>, <<>>)

\* ------------------------------------------------------------ reflection
\* A reflect.Type is a base type under ptr levels of pointer.
T(base, ptr) == [base |-> base, ptr |-> ptr]
NilType == T("nil", 0)

\* Type.Name() of a base type.
BaseName(b) ==
    CASE b = "A" -> <<"A">>
      [] b = "B" -> <<"B">>
      [] b = "C" -> <<"C">>
      [] b = "D" -> <<"D">>
      [] b = "V" -> <<"V">>
      [] b = "a" -> <<"a">>
      [] b = "Args" -> <<"A", "r", "g", "s">>
      [] b = "Reply" -> <<"R", "e", "p", "l", "y">>
      [] b = "args" -> <<"a", "r", "g", "s">>
      [] b = "int" -> <<"i", "n", "t">>
      [] b = "string" -> <<"s", "t", "r", "i", "n", "g">>
      [] b = "error" -> <<"e", "r", "r", "o", "r">>
      [] OTHER -> <<>>

\* Type.PkgPath() of a base type: empty for builtin and unnamed types.
BasePkg(b) == IF b \in {"A", "B", "C", "D", "V", "a", "Args", "Reply", "args"} THEN "app" ELSE ""

\* Type.Name(): pointer types are unnamed.
TypeName(t) == IF t.ptr = 0 THEN BaseName(t.base) ELSE <<>>
TypePkgPath(t) == IF t.ptr = 0 THEN BasePkg(t.base) ELSE ""
KindIsPtr(t) == t.ptr > 0
Elem(t) == T(t.base, t.ptr - 1)
PtrTo(t) == T(t.base, t.ptr + 1)

typeOfError == T("error", 0)
typeOfBytes == T("[]byte", 0)

RECURSIVE isExportedOrBuiltinType(_)
isExportedOrBuiltinType(t) ==
    IF KindIsPtr(t) THEN isExportedOrBuiltinType(Elem(t))
    ELSE isExported(TypeName(t)) \/ TypePkgPath(t) = ""

\* Method signatures declared in the program under analysis: name, PkgPath
\* (empty when exported), explicit parameters, results.
Sig(name, pkg, params, out) == [Name |-> name, PkgPath |-> pkg, Params |-> params, Out |-> out]
SigM == Sig(<<"M">>, "", <<T("Args", 1), T("Reply", 1)>>, <<typeOfError>>)
SigN == Sig(<<"N">>, "", <<T("Args", 0), T("Reply", 1)>>, <<typeOfError>>)
SigR == Sig(<<"R">>, "", <<T("Args", 1), T("Reply", 0)>>, <<typeOfError>>)
SigU == Sig(<<"U">>, "", <<T("args", 1), T("Reply", 1)>>, <<typeOfError>>)
SigE == Sig(<<"E">>, "", <<typeOfBytes>>, <<typeOfBytes, typeOfError>>)
SigS == Sig(<<"S">>, "", <<typeOfBytes>>, <<T("string", 0), typeOfError>>)
SigMb == Sig(<<"M">>, "", <<typeOfBytes>>, <<typeOfBytes, typeOfError>>)

\* Methods declared with a value receiver / a pointer receiver on each base.
ValueSigs(b) == IF b = "V" THEN {SigM, SigE} ELSE {}
PtrSigs(b) ==
    CASE b = "A" -> {SigM, SigN, SigE, SigS}
      [] b = "a" -> {SigM, SigE}
      [] b = "B" -> {SigM, SigR, SigU, SigE}
      [] b = "C" -> {SigN, SigS}
      [] b = "D" -> {SigMb}
      [] OTHER -> {}

\* reflect.Method of typ: In(0) is the receiver.
Method(typ, sig) ==
    [Name |-> sig.Name, PkgPath |-> sig.PkgPath, In |-> <<typ>> \o sig.Params, Out |-> sig.Out]

\* The method set of typ (typ.NumMethod(), typ.Method(m)).
MethodSet(typ) ==
    IF typ.ptr = 0 THEN {Method(typ, s) : s \in ValueSigs(typ.base)}
    ELSE IF typ.ptr = 1 THEN {Method(typ, s) : s \in ValueSigs(typ.base) \cup PtrSigs(typ.base)}
    ELSE {}

NumIn(m) == Len(m.In)
NumOut(m) == Len(m.Out)

\* Mutant of SysSuitable: the pointer test of the first argument is missing.
SysSuitable_NoArgPtrCheck(m) ==
    /\ m.PkgPath = ""
    /\ Len(m.In) = 3
    /\ isExportedOrBuiltinType(m.In[2])
    /\ isExportedOrBuiltinType(m.In[3])
    /\ Len(m.Out) = 1
    /\ m.Out[1] = [base |-> "error", ptr |-> 0]

\* The Sys-namespace loop body: TRUE iff the method reaches methods[mname] = ...
SysSuitable(m) ==
    /\ m.PkgPath = ""
    /\ NumIn(m) = 3
    /\ isExportedOrBuiltinType(m.In[2])
    /\ KindIsPtr(m.In[2])
    /\ isExportedOrBuiltinType(m.In[3])
    /\ NumOut(m) = 1
    /\ m.Out[1] = typeOfError

\* Mutant of UserSuitable: the type of the first result is not tested.
UserSuitable_AnyFirstOut(m) ==
    /\ m.PkgPath = ""
    /\ ~(Len(m.In) < 1)
    /\ Len(m.Out) = 2
    /\ m.Out[2] = [base |-> "error", ptr |-> 0]

\* The User-namespace loop body.
UserSuitable(m) ==
    /\ m.PkgPath = ""
    /\ ~(NumIn(m) < 1)
    /\ NumOut(m) = 2
    /\ m.Out[1] = typeOfBytes
    /\ m.Out[2] = typeOfError

methodType(kind, m) ==
    IF kind = SysRpc
    THEN [method |-> m, ArgType |-> m.In[2], ReplyType |-> m.In[3], numCalls |-> 0]
    ELSE [method |-> m, ArgType |-> NilType, ReplyType |-> NilType, numCalls |-> 0]

\* (m *methodType).NumCalls(): the counter, read under the descriptor's mutex.
NumCalls(m) == m.numCalls

\* The two loops of suitableMethods over the methods ms of a type: map from
\* method name to *methodType.
SuitableIn(kind, ms) ==
    LET ok == {m \in ms :
                  \/ kind = SysRpc /\ SysSuitable(m)
                  \/ kind = UserRpc /\ UserSuitable(m)}
    IN [n \in {m.Name : m \in ok} |-> methodType(kind, CHOOSE m \in ok : m.Name = n)]

\* suitableMethods(kind, typ, reportErr); reportErr only selects logging.
suitableMethods(kind, typ, reportErr) == SuitableIn(kind, MethodSet(typ))

\* ---------------------------------------------------------------- values
\* A receiver value: its dynamic type and which instance of that type it is.
\* NilRcvr is the nil interface value.
Rcv(typ, inst) == [typ |-> typ, inst |-> inst]
NilRcvr == Rcv(NilType, 0)

\* error values: the return statement that made them and the message text.
Err(site, msg) == [site |-> site, msg |-> msg]
NilErr == Err("nil", <<>>)
Panic == Err("panic", <<>>)

\* The zero Request and the zero Response.
ZeroRequest ==
    [ServiceMethod |-> <<>>, Seq |-> 0, Sid |-> 0, Args |-> <<>>, Kind |-> 0, next |-> Nil]
ZeroResponse ==
    [Kind |-> 0, ServiceMethod |-> <<>>, Seq |-> 0, Sid |-> 0, Reply |-> <<>>,
     Error |-> <<>>, Route |-> <<>>, next |-> Nil]

RespIds == 1..MaxResp
ReqIds == 1..MaxReq

\* ----------------------------------------------------------------- state
VARIABLES
    Kind,        \* Server.Kind
    serviceMap,  \* Server.serviceMap: service name -> service
    mu,          \* Server.mu: the goroutine holding the write lock, or NoProc
    reqLock,     \* Server.reqLock holder
    freeReq,     \* Server.freeReq: head of the Request free list
    reqs,        \* the Request objects, by id
    nreq,        \* Request objects created so far
    respLock,    \* Server.respLock holder
    freeResp,    \* Server.freeResp: head of the Response free list
    resps,       \* the Response objects, by id
    nresp,       \* Response objects allocated so far
    held,        \* per goroutine: the Responses it got and has not released
    pc,          \* per goroutine: where it is in the operation it runs
    fr,          \* per goroutine: arguments and locals of that operation; when
                 \* idle, what its latest operation returned
    hist,        \* per goroutine: what each of its register calls returned
    nreg,        \* register calls started
    nops,        \* operations started
    crashed      \* the runtime stopped the program (fatal error)

vars == <<Kind, serviceMap, mu, reqLock, freeReq, reqs, nreq, respLock, freeResp,
          resps, nresp, held, pc, fr, hist, nreg, nops, crashed>>

registryVars == <<Kind, serviceMap, mu, hist>>
countVars == <<nreg, nops>>
reqVars == <<reqLock, freeReq, reqs, nreq>>
respVars == <<respLock, freeResp, resps, nresp, held>>

Idle == [op |-> "none"]

\* NewServer(kind), before any goroutine uses the Server.
Init ==
    /\ Kind \in {SysRpc, UserRpc}
    /\ serviceMap = <<>>
    /\ mu = NoProc
    /\ reqLock = NoProc
    /\ freeReq = Nil
    /\ reqs = [i \in ReqIds |-> ZeroRequest]
    /\ nreq = 0
    /\ respLock = NoProc
    /\ freeResp = Nil
    /\ resps = [i \in RespIds |-> ZeroResponse]
    /\ nresp = 0
    /\ held = [p \in Procs |-> {}]
    /\ pc = [p \in Procs |-> "idle"]
    /\ fr = [p \in Procs |-> Idle]
    /\ hist = [p \in Procs |-> <<>>]
    /\ nreg = 0
    /\ nops = 0
    /\ crashed = FALSE

\* An operation is entered: one more started, counted up to MaxOps.
Started == nops' = IF nops < MaxOps THEN nops + 1 ELSE nops

\* An operation of goroutine p returns ret to its caller.
Return(p, ret) ==
    /\ pc' = [pc EXCEPT ![p] = "idle"]
    /\ fr' = [fr EXCEPT ![p] = ret]

\* ------------------------------------------------------------ validator
\* suitableMethods run on the methods the goroutine was given.
validate(p) ==
    /\ pc[p] = "v_call"
    /\ Return(p, [op |-> "suitableMethods", methods |-> fr[p].methods,
                  result |-> SuitableIn(Kind, fr[p].methods)])
    /\ UNCHANGED <<Kind, serviceMap, mu, hist, nreg, nops, crashed>>
    /\ UNCHANGED <<reqLock, freeReq, reqs, nreq, respLock, freeResp, resps, nresp, held>>

\* ------------------------------------------------------------- register
\* reflect.Indirect(s.rcvr).Type()
IndirectType(rcvr) == IF KindIsPtr(rcvr.typ) THEN Elem(rcvr.typ) ELSE rcvr.typ

\* The service name register settles on (lines 145-148).
ServiceName(rcvr, name, useName) ==
    IF useName THEN name ELSE TypeName(IndirectType(rcvr))

\* register is entered by goroutine p; Lock() is next.
registerEnter(p, rcvr, name, useName) ==
    /\ pc[p] = "idle"
    /\ pc' = [pc EXCEPT ![p] = "r_lock"]
    /\ fr' = [fr EXCEPT ![p] = [op |-> "register", rcvr |-> rcvr, name |-> name,
                                useName |-> useName]]
    /\ nreg' = nreg + 1
    /\ Started
    /\ UNCHANGED <<Kind, serviceMap, mu, hist, crashed>>
    /\ UNCHANGED <<reqVars, respVars>>

Register(p, rcvr) == registerEnter(p, rcvr, <<>>, FALSE)

RegisterName(p, name, rcvr) == registerEnter(p, rcvr, name, TRUE)

\* Mutant of registerLock: the lock excludes nobody.
registerLock_NoExclusion(p) ==
    /\ pc[p] = "r_lock"
    /\ mu' = p
    /\ pc' = [pc EXCEPT ![p] = "r_check"]
    /\ fr' = [fr EXCEPT ![p] =
                 [op |-> "register", rcvr |-> fr[p].rcvr, name |-> fr[p].name,
                  useName |-> fr[p].useName,
                  conc |-> {<<q, Len(hist[q]) + 1>> : q \in {r \in Procs \ {p} : pc[r] = "r_lock"}}]]
    /\ UNCHANGED <<Kind, serviceMap, hist, countVars, crashed>>
    /\ UNCHANGED <<reqVars, respVars>>

\* server.mu.Lock(): blocks while another goroutine holds the lock. conc names
\* the register calls that are blocked on the lock at this moment.
registerLock(p) ==
    /\ pc[p] = "r_lock"
    /\ mu = NoProc
    /\ mu' = p
    /\ pc' = [pc EXCEPT ![p] = "r_check"]
    /\ fr' = [fr EXCEPT ![p] =
                 [op |-> "register", rcvr |-> fr[p].rcvr, name |-> fr[p].name,
                  useName |-> fr[p].useName,
                  conc |-> {<<q, Len(hist[q]) + 1>> : q \in {r \in Procs \ {p} : pc[r] = "r_lock"}}]]
    /\ UNCHANGED <<Kind, serviceMap, hist, countVars, crashed>>
    /\ UNCHANGED <<reqVars, respVars>>

\* Mutant of registerError: no duplicate check.
registerError_NoDuplicateCheck(kind, map, rcvr, name, useName) ==
    LET sname == IF useName THEN name ELSE TypeName(IF KindIsPtr(rcvr.typ) THEN Elem(rcvr.typ) ELSE rcvr.typ)
    IN  IF rcvr = NilRcvr THEN Panic
        ELSE IF sname = <<>>
             THEN Err("EmptyServiceName", <<"rpc.Register: no service name for type ", rcvr.typ>>)
        ELSE IF ~isExported(sname) /\ ~useName
             THEN Err("NameNotExported", <<"rpc.Register: type ", sname, " is not exported">>)
        ELSE IF DOMAIN suitableMethods(kind, rcvr.typ, TRUE) = {}
             THEN Err("NoSuitableMethods", <<"rpc.Register: type ", sname>>)
        ELSE NilErr

\* Mutant of registerError: the exported-name check ignores useName.
registerError_ExportedAlways(kind, map, rcvr, name, useName) ==
    LET sname == IF useName THEN name ELSE TypeName(IF KindIsPtr(rcvr.typ) THEN Elem(rcvr.typ) ELSE rcvr.typ)
    IN  IF rcvr = NilRcvr THEN Panic
        ELSE IF sname = <<>>
             THEN Err("EmptyServiceName", <<"rpc.Register: no service name for type ", rcvr.typ>>)
        ELSE IF ~isExported(sname)
             THEN Err("NameNotExported", <<"rpc.Register: type ", sname, " is not exported">>)
        ELSE IF sname \in DOMAIN map
             THEN Err("DuplicateService", <<"rpc: service already defined: ", sname>>)
        ELSE IF DOMAIN suitableMethods(kind, rcvr.typ, TRUE) = {}
             THEN Err("NoSuitableMethods", <<"rpc.Register: type ", sname>>)
        ELSE NilErr

\* What lines 139-179 decide, given the registry they read: the error to
\* return, or NilErr when line 180 is reached.
registerError(kind, map, rcvr, name, useName) ==
    LET sname == ServiceName(rcvr, name, useName)
    IN  IF rcvr = NilRcvr THEN Panic
        ELSE IF sname = <<>>
             THEN Err("EmptyServiceName", <<"rpc.Register: no service name for type ", rcvr.typ>>)
        ELSE IF ~isExported(sname) /\ ~useName
             THEN Err("NameNotExported", <<"rpc.Register: type ", sname, " is not exported">>)
        ELSE IF sname \in DOMAIN map
             THEN Err("DuplicateService", <<"rpc: service already defined: ", sname>>)
        ELSE IF DOMAIN suitableMethods(kind, rcvr.typ, TRUE) = {}
             THEN IF DOMAIN suitableMethods(kind, PtrTo(rcvr.typ), FALSE) # {}
                  THEN Err("NoSuitableMethods",
                           <<"rpc.Register: type ", sname,
                             " has no exported methods of suitable type (hint: pass a pointer to value of that type)">>)
                  ELSE Err("NoSuitableMethods",
                           <<"rpc.Register: type ", sname,
                             " has no exported methods of suitable type">>)
        ELSE NilErr

\* The service built by lines 142-165.
newService(kind, rcvr, sname) ==
    [name |-> sname, rcvr |-> rcvr, typ |-> rcvr.typ,
     method |-> suitableMethods(kind, rcvr.typ, TRUE)]

\* Mutant of registerCheck: the service is stored before its methods are
\* validated, so a receiver without suitable methods keeps the name.
registerCheck_InsertBeforeValidate(p) ==
    /\ pc[p] = "r_check"
    /\ LET f == fr[p]
           err == registerError(Kind, serviceMap, f.rcvr, f.name, f.useName)
           sname == IF err = Panic THEN <<>> ELSE ServiceName(f.rcvr, f.name, f.useName)
           g == [op |-> "register", rcvr |-> f.rcvr, name |-> f.name, useName |-> f.useName,
                 conc |-> f.conc, sname |-> sname, fresh |-> sname \notin DOMAIN serviceMap,
                 err |-> err]
       IN  /\ IF err = NilErr
              THEN /\ pc' = [pc EXCEPT ![p] = "r_insert"]
                   /\ fr' = [fr EXCEPT ![p] = g @@ [s |-> newService(Kind, f.rcvr, sname)]]
              ELSE /\ pc' = [pc EXCEPT ![p] = "r_unlock"]
                   /\ fr' = [fr EXCEPT ![p] = g]
           /\ serviceMap' = IF err.site = "NoSuitableMethods"
                            THEN (sname :> newService(Kind, f.rcvr, sname)) @@ serviceMap
                            ELSE serviceMap
    /\ UNCHANGED <<Kind, mu, hist, countVars, crashed>>
    /\ UNCHANGED <<reqVars, respVars>>

\* Lines 139-179, run with the lock held.
registerCheck(p) ==
    /\ pc[p] = "r_check"
    /\ LET f == fr[p]
           err == registerError(Kind, serviceMap, f.rcvr, f.name, f.useName)
           sname == IF err = Panic THEN <<>> ELSE ServiceName(f.rcvr, f.name, f.useName)
           g == [op |-> "register", rcvr |-> f.rcvr, name |-> f.name, useName |-> f.useName,
                 conc |-> f.conc, sname |-> sname, fresh |-> sname \notin DOMAIN serviceMap,
                 err |-> err]
       IN  IF err = NilErr
           THEN /\ pc' = [pc EXCEPT ![p] = "r_insert"]
                /\ fr' = [fr EXCEPT ![p] = g @@ [s |-> newService(Kind, f.rcvr, sname)]]
           ELSE /\ pc' = [pc EXCEPT ![p] = "r_unlock"]
                /\ fr' = [fr EXCEPT ![p] = g]
    /\ UNCHANGED <<registryVars, countVars, crashed>>
    /\ UNCHANGED <<reqVars, respVars>>

\* Mutant of registerInsert: the map is replaced by one holding the new entry.
registerInsert_Replace(p) ==
    /\ pc[p] = "r_insert"
    /\ serviceMap' = (fr[p].s.name :> fr[p].s)
    /\ pc' = [pc EXCEPT ![p] = "r_unlock"]
    /\ UNCHANGED <<Kind, mu, hist, countVars, fr, crashed>>
    /\ UNCHANGED <<reqVars, respVars>>

\* Line 180: server.serviceMap[s.name] = s.
registerInsert(p) ==
    /\ pc[p] = "r_insert"
    /\ serviceMap' = (fr[p].s.name :> fr[p].s) @@ serviceMap
    /\ pc' = [pc EXCEPT ![p] = "r_unlock"]
    /\ UNCHANGED <<Kind, mu, hist, countVars, fr, crashed>>
    /\ UNCHANGED <<reqVars, respVars>>

\* The deferred server.mu.Unlock() and the return to the caller.
registerUnlock(p) ==
    /\ pc[p] = "r_unlock"
    /\ mu' = NoProc
    /\ LET f == fr[p]
           ret == [op |-> "register", rcvr |-> f.rcvr, name |-> f.name,
                   useName |-> f.useName, conc |-> f.conc, sname |-> f.sname,
                   fresh |-> f.fresh, err |-> f.err]
       IN  /\ hist' = [hist EXCEPT ![p] = Append(@, ret)]
           /\ Return(p, ret)
    /\ UNCHANGED <<Kind, serviceMap, countVars, crashed>>
    /\ UNCHANGED <<reqVars, respVars>>

\* ----------------------------------------------------------------- Call
\* Mutant of lookup: the two error returns are swapped.
lookup_ErrorsSwapped(map, sname, smethod) ==
    IF sname \in DOMAIN map
    THEN IF smethod \in DOMAIN map[sname].method
         THEN [err |-> NilErr, s |-> map[sname], m |-> map[sname].method[smethod]]
         ELSE [err |-> Err("ServiceNotFound", <<"rpc: ", sname, " do not exists">>)]
    ELSE [err |-> Err("MethodNotFound", <<"rpc: ", smethod, " do not exists">>)]

\* Lines 320-330 on the registry contents the goroutine reads: the handler
\* found, or the error returned.
lookup(map, sname, smethod) ==
    IF sname \in DOMAIN map
    THEN IF smethod \in DOMAIN map[sname].method
         THEN [err |-> NilErr, s |-> map[sname], m |-> map[sname].method[smethod]]
         ELSE [err |-> Err("MethodNotFound", <<"rpc: ", smethod, " do not exists">>)]
    ELSE [err |-> Err("ServiceNotFound", <<"rpc: ", sname, " do not exists">>)]

\* The register calls whose write of line 180 may be under way.
Writers == {q \in Procs : pc[q] = "r_insert"}

\* What an unsynchronised read of serviceMap can see: the map as it is; or,
\* racing with a write of line 180, the map with the new entry, wholly or
\* with the service's fields not yet visible.
Views ==
    {serviceMap}
    \cup {(fr[q].s.name :> fr[q].s) @@ serviceMap : q \in Writers}
    \cup {(fr[q].s.name :> [fr[q].s EXCEPT !.method = <<>>]) @@ serviceMap : q \in Writers}

\* Lines 315-319: split the route; a route that does not split in two returns
\* at once, any other goes on to the lookup.
Call(p, serviceMethod, args) ==
    /\ pc[p] = "idle"
    /\ LET parts == Split(serviceMethod)
       IN  IF Len(parts) # 2
           THEN Return(p, [op |-> "Call", route |-> serviceMethod, args |-> args,
                           err |-> Err("InvalidRouteFormat", <<"wrong route string">>),
                           invoked |-> 0])
           ELSE /\ pc' = [pc EXCEPT ![p] = "c_lookup"]
                /\ fr' = [fr EXCEPT ![p] = [op |-> "Call", route |-> serviceMethod,
                                            args |-> args, sname |-> parts[1],
                                            smethod |-> parts[2], invoked |-> 0]]
    /\ Started
    /\ UNCHANGED <<registryVars, nreg, reqVars, respVars, crashed>>

\* Mutant of CallLookup: the handler is invoked before the method is looked up.
CallLookup_InvokeBeforeCheck(p) ==
    /\ pc[p] = "c_lookup"
    /\ \E view \in Views :
          LET f == fr[p]
              r == lookup(view, f.sname, f.smethod)
          IN  IF r.err.site = "ServiceNotFound"
              THEN Return(p, [op |-> "Call", route |-> f.route, args |-> f.args,
                              err |-> r.err, invoked |-> f.invoked])
              ELSE IF r.err # NilErr
              THEN Return(p, [op |-> "Call", route |-> f.route, args |-> f.args,
                              err |-> r.err, invoked |-> f.invoked + 1])
              ELSE IF Len(f.args) + 1 # NumIn(r.m.method)
              THEN Return(p, [op |-> "Call", route |-> f.route, args |-> f.args,
                              err |-> Panic, invoked |-> f.invoked])
              ELSE /\ pc' = [pc EXCEPT ![p] = "c_handler"]
                   /\ fr' = [fr EXCEPT ![p] = [s |-> r.s, m |-> r.m,
                                               invoked |-> f.invoked + 1] @@ f]
    /\ UNCHANGED <<registryVars, countVars, reqVars, respVars, crashed>>

\* Mutant of CallLookup: the lookup takes server.mu and the handler runs with
\* the lock held.
CallLookup_HoldingLock(p) ==
    /\ pc[p] = "c_lookup"
    /\ mu = NoProc
    /\ LET f == fr[p]
           r == lookup(serviceMap, f.sname, f.smethod)
       IN  IF r.err # NilErr
           THEN /\ Return(p, [op |-> "Call", route |-> f.route, args |-> f.args,
                              err |-> r.err, invoked |-> f.invoked])
                /\ UNCHANGED mu
           ELSE IF Len(f.args) + 1 # NumIn(r.m.method)
           THEN /\ Return(p, [op |-> "Call", route |-> f.route, args |-> f.args,
                              err |-> Panic, invoked |-> f.invoked])
                /\ UNCHANGED mu
           ELSE /\ pc' = [pc EXCEPT ![p] = "c_handler"]
                /\ fr' = [fr EXCEPT ![p] = [s |-> r.s, m |-> r.m,
                                            invoked |-> f.invoked + 1] @@ f]
                /\ mu' = p
    /\ UNCHANGED <<Kind, serviceMap, hist, countVars, reqVars, respVars, crashed>>

\* Lines 320-330, without any lock: the lookups, then either an error return
\* or m.method.Func.Call(args), which panics on a wrong number of arguments
\* and otherwise starts the handler on this goroutine.
CallLookup(p) ==
    /\ pc[p] = "c_lookup"
    /\ \E view \in Views :
          LET f == fr[p]
              r == lookup(view, f.sname, f.smethod)
          IN  IF r.err # NilErr
              THEN Return(p, [op |-> "Call", route |-> f.route, args |-> f.args,
                              err |-> r.err, invoked |-> f.invoked])
              ELSE IF Len(f.args) + 1 # NumIn(r.m.method)
              THEN Return(p, [op |-> "Call", route |-> f.route, args |-> f.args,
                              err |-> Panic, invoked |-> f.invoked])
              ELSE /\ pc' = [pc EXCEPT ![p] = "c_handler"]
                   /\ fr' = [fr EXCEPT ![p] = [s |-> r.s, m |-> r.m,
                                               invoked |-> f.invoked + 1] @@ f]
    /\ UNCHANGED <<registryVars, countVars, reqVars, respVars, crashed>>

\* The runtime detects the map read of line 320 racing with the map write of
\* line 180: "fatal error: concurrent map read and map write".
CallLookupFatal(p) ==
    /\ pc[p] = "c_lookup"
    /\ Writers # {}
    /\ crashed' = TRUE
    /\ pc' = [q \in Procs |-> "dead"]
    /\ UNCHANGED <<registryVars, countVars, reqVars, respVars, fr>>

\* Mutant of CallArgs: the receiver is put after the caller's arguments.
CallArgs_ReceiverLast(s, args) == args \o <<s.rcvr>>

\* Line 322: args = append([]reflect.Value{s.rcvr}, args...).
CallArgs(s, args) == <<s.rcvr>> \o args

\* What the handler behind method returns when called on in: M of *D returns
\* its payload and a nil error; the results of any other handler are one value
\* that its method and its arguments determine.
Handler(method, in) ==
    IF method.Name = <<"M">> /\ method.In[1] = [base |-> "D", ptr |-> 1]
    THEN <<in[2], NilErr>>
    ELSE <<[method |-> method.Name, in |-> in]>>

\* Line 323: rets := m.method.Func.Call(args); called notes the method and the
\* arguments of that invocation.
Rets(f) ==
    [called |-> [method |-> f.m.method, in |-> CallArgs(f.s, f.args)],
     rets |-> Handler(f.m.method, CallArgs(f.s, f.args))]

\* Line 324: the handler returns and Call returns its values with a nil error.
HandlerReturn(p) ==
    /\ pc[p] = "c_handler"
    /\ Return(p, [op |-> "Call", route |-> fr[p].route, args |-> fr[p].args,
                  err |-> NilErr, invoked |-> fr[p].invoked] @@ Rets(fr[p]))
    /\ UNCHANGED <<registryVars, countVars, reqVars, respVars, crashed>>

\* The handler panics; nothing recovers, the panic reaches Call's caller.
HandlerPanic(p) ==
    /\ pc[p] = "c_handler"
    /\ Return(p, [op |-> "Call", route |-> fr[p].route, args |-> fr[p].args,
                  err |-> Panic, invoked |-> fr[p].invoked])
    /\ UNCHANGED <<registryVars, countVars, reqVars, respVars, crashed>>

\* ------------------------------------------------------------ Request pool
\* freeRequest(req) is entered with a Request the caller made.
freeRequest(p) ==
    /\ pc[p] = "idle"
    /\ nreq < MaxReq
    /\ nreq' = nreq + 1
    /\ pc' = [pc EXCEPT ![p] = "q_lock"]
    /\ fr' = [fr EXCEPT ![p] = [op |-> "freeRequest", req |-> nreq + 1]]
    /\ Started
    /\ UNCHANGED <<registryVars, nreg, respVars, reqLock, freeReq, reqs, crashed>>

freeRequestLock(p) ==
    /\ pc[p] = "q_lock"
    /\ reqLock = NoProc
    /\ reqLock' = p
    /\ pc' = [pc EXCEPT ![p] = "q_body"]
    /\ UNCHANGED <<registryVars, countVars, respVars, freeReq, reqs, nreq, fr, crashed>>

\* Lines 289-291.
freeRequestBody(p) ==
    /\ pc[p] = "q_body"
    /\ reqs' = [reqs EXCEPT ![fr[p].req].next = freeReq]
    /\ freeReq' = fr[p].req
    /\ reqLock' = NoProc
    /\ Return(p, [op |-> "freeRequest"])
    /\ UNCHANGED <<registryVars, countVars, respVars, nreq, crashed>>

\* ----------------------------------------------------------- Response pool
\* The Responses reachable from id along next, at most n of them.
RECURSIVE ListFrom(_, _)
ListFrom(id, n) ==
    IF id = Nil \/ n = 0 THEN <<>> ELSE <<id>> \o ListFrom(resps[id].next, n - 1)

\* The free list, from server.freeResp.
FreeList == ListFrom(freeResp, MaxResp + 1)

\* getResponse calls that have not yet taken or allocated their Response.
Getting == {q \in Procs : pc[q] \in {"g_lock", "g_body"}}

\* getResponse is entered. (The guard keeps the calls in flight within the
\* MaxResp objects the model has.)
getResponse(p) ==
    /\ pc[p] = "idle"
    /\ (MaxResp - nresp) + Len(FreeList) > Cardinality(Getting)
    /\ pc' = [pc EXCEPT ![p] = "g_lock"]
    /\ fr' = [fr EXCEPT ![p] = [op |-> "getResponse"]]
    /\ Started
    /\ UNCHANGED <<registryVars, nreg, reqVars, respVars, crashed>>

getResponseLock(p) ==
    /\ pc[p] = "g_lock"
    /\ respLock = NoProc
    /\ respLock' = p
    /\ pc' = [pc EXCEPT ![p] = "g_body"]
    /\ UNCHANGED <<registryVars, countVars, reqVars, freeResp, resps, nresp, held, fr, crashed>>

\* Mutant of getResponseBody: the head of the free list is not advanced.
getResponseBody_NoPop(p) ==
    /\ pc[p] = "g_body"
    /\ IF freeResp = Nil
       THEN /\ nresp < MaxResp
            /\ nresp' = nresp + 1
            /\ resps' = [resps EXCEPT ![nresp + 1] = ZeroResponse]
            /\ fr' = [fr EXCEPT ![p] = [op |-> "getResponse", resp |-> nresp + 1,
                                        recycled |-> FALSE, prev |-> ZeroResponse]]
            /\ UNCHANGED freeResp
       ELSE /\ UNCHANGED freeResp
            /\ resps' = [resps EXCEPT ![freeResp] = [ZeroResponse EXCEPT !.next = resps[freeResp].next]]
            /\ fr' = [fr EXCEPT ![p] = [op |-> "getResponse", resp |-> freeResp,
                                        recycled |-> TRUE, prev |-> resps[freeResp]]]
            /\ UNCHANGED nresp
    /\ pc' = [pc EXCEPT ![p] = "g_unlock"]
    /\ UNCHANGED <<registryVars, countVars, reqVars, respLock, held, crashed>>

\* Mutant of getResponseBody: the recycled Response is not reset.
getResponseBody_NoReset(p) ==
    /\ pc[p] = "g_body"
    /\ IF freeResp = Nil
       THEN /\ nresp < MaxResp
            /\ nresp' = nresp + 1
            /\ resps' = [resps EXCEPT ![nresp + 1] = ZeroResponse]
            /\ fr' = [fr EXCEPT ![p] = [op |-> "getResponse", resp |-> nresp + 1,
                                        recycled |-> FALSE, prev |-> ZeroResponse]]
            /\ UNCHANGED freeResp
       ELSE /\ freeResp' = resps[freeResp].next
            /\ fr' = [fr EXCEPT ![p] = [op |-> "getResponse", resp |-> freeResp,
                                        recycled |-> TRUE, prev |-> resps[freeResp]]]
            /\ UNCHANGED <<nresp, resps>>
    /\ pc' = [pc EXCEPT ![p] = "g_unlock"]
    /\ UNCHANGED <<registryVars, countVars, reqVars, respLock, held, crashed>>

\* Lines 296-302: take the head of the free list and reset it, or allocate.
\* (recycled and prev note which branch ran and what the object held.)
getResponseBody(p) ==
    /\ pc[p] = "g_body"
    /\ IF freeResp = Nil
       THEN /\ nresp < MaxResp
            /\ nresp' = nresp + 1
            /\ resps' = [resps EXCEPT ![nresp + 1] = ZeroResponse]
            /\ fr' = [fr EXCEPT ![p] = [op |-> "getResponse", resp |-> nresp + 1,
                                        recycled |-> FALSE, prev |-> ZeroResponse]]
            /\ UNCHANGED freeResp
       ELSE /\ freeResp' = resps[freeResp].next
            /\ resps' = [resps EXCEPT ![freeResp] = ZeroResponse]
            /\ fr' = [fr EXCEPT ![p] = [op |-> "getResponse", resp |-> freeResp,
                                        recycled |-> TRUE, prev |-> resps[freeResp]]]
            /\ UNCHANGED nresp
    /\ pc' = [pc EXCEPT ![p] = "g_unlock"]
    /\ UNCHANGED <<registryVars, countVars, reqVars, respLock, held, crashed>>

\* Lines 303-304: unlock and return resp, which the caller now holds.
getResponseUnlock(p) ==
    /\ pc[p] = "g_unlock"
    /\ respLock' = NoProc
    /\ held' = [held EXCEPT ![p] = @ \cup {fr[p].resp}]
    /\ Return(p, [op |-> "getResponse", resp |-> fr[p].resp])
    /\ UNCHANGED <<registryVars, countVars, reqVars, freeResp, resps, nresp, crashed>>

\* The holder of a Response writes its fields.
writeResponse(p, r, v) ==
    /\ pc[p] = "idle"
    /\ r \in held[p]
    /\ resps[r] # v
    /\ resps' = [resps EXCEPT ![r] = v]
    /\ UNCHANGED <<registryVars, countVars, reqVars, respLock, freeResp, nresp, held, pc, fr, crashed>>

\* freeResponse(resp) is entered by the holder of resp, who gives it up.
freeResponse(p, r) ==
    /\ pc[p] = "idle"
    /\ r \in held[p]
    /\ held' = [held EXCEPT ![p] = @ \ {r}]
    /\ pc' = [pc EXCEPT ![p] = "f_lock"]
    /\ fr' = [fr EXCEPT ![p] = [op |-> "freeResponse", resp |-> r]]
    /\ Started
    /\ UNCHANGED <<registryVars, nreg, reqVars, respLock, freeResp, resps, nresp, crashed>>

freeResponseLock(p) ==
    /\ pc[p] = "f_lock"
    /\ respLock = NoProc
    /\ respLock' = p
    /\ pc' = [pc EXCEPT ![p] = "f_body"]
    /\ UNCHANGED <<registryVars, countVars, reqVars, freeResp, resps, nresp, held, fr, crashed>>

\* Mutant of freeResponseBody: resp.next is not set to the old head.
freeResponseBody_NoLink(p) ==
    /\ pc[p] = "f_body"
    /\ resps' = [resps EXCEPT ![fr[p].resp].next = Nil]
    /\ freeResp' = fr[p].resp
    /\ respLock' = NoProc
    /\ Return(p, [op |-> "freeResponse"])
    /\ UNCHANGED <<registryVars, countVars, reqVars, nresp, held, crashed>>

\* Lines 309-311.
freeResponseBody(p) ==
    /\ pc[p] = "f_body"
    /\ resps' = [resps EXCEPT ![fr[p].resp].next = freeResp]
    /\ freeResp' = fr[p].resp
    /\ respLock' = NoProc
    /\ Return(p, [op |-> "freeResponse"])
    /\ UNCHANGED <<registryVars, countVars, reqVars, nresp, held, crashed>>

\* ------------------------------------------------------------------ inputs
RcvA1 == Rcv(T("A", 1), 1)
RcvA2 == Rcv(T("A", 1), 2)
RcvVA == Rcv(T("A", 0), 1)
Rcva == Rcv(T("a", 1), 1)
RcvB == Rcv(T("B", 1), 1)
RcvV == Rcv(T("V", 0), 1)
RcvC == Rcv(T("C", 1), 1)
RcvD == Rcv(T("D", 1), 1)
RcvPPA == Rcv(T("A", 2), 1)

\* Receivers and explicit names for the single-goroutine registrations.
SeqRcvrs == {RcvA1, RcvA2, RcvVA, Rcva, RcvB, RcvV, RcvC, RcvPPA, NilRcvr}
SeqNames == {<<>>, <<"A">>, <<"a">>, <<"A", ".", "B">>}

\* Receivers, explicit names and calls for the concurrent goroutines.
ConcRcvrs == {RcvA1, Rcva}
ConcNames == {<<"a">>}
ConcCalls ==
    {<< <<"A", ".", "M">>, <<"x", "y">> >>,
     << <<"a", ".", "E">>, <<"x">> >>,
     << <<"A", "M">>, <<>> >>}

\* Receivers for the goroutines that run every operation.
AllOpsRcvrs == {RcvA1}

\* Receivers and explicit names for goroutines that only register.
RegRcvrs == {RcvA1, Rcva}
RegNames == {<<"A">>, <<"a">>}

\* Registrations (receiver, name, useName), routes and argument lists for the
\* single-goroutine calls.
RouteRegs == {<<RcvA1, <<>>, FALSE>>, <<RcvD, <<"M">>, TRUE>>}
RouteChars == {"A", "M", "."}
AllRoutes == UNION {[1..k -> RouteChars] : k \in 0..MaxRouteLen}
ArgLists == {<< <<"x">> >>, << <<"x">>, <<"y">> >>}

\* Routes naming a service and a method, and argument lists whose first
\* argument is any payload, for the calls that are served.
ServedRoutes == {<<s, Sep, m>> : s \in {"A", "M"}, m \in {"A", "M"}}
Payloads == {<<>>, <<"x">>, <<"x", "y">>}
ServedArgs == {<<b>> : b \in Payloads} \cup {<<b, <<"y">> >> : b \in Payloads}

\* Methods for the validator: a name, the PkgPath reflect gives that name,
\* any explicit parameters and any results over these types, on receiver *A.
ParamTypes == {T("Args", 1), T("Args", 0), T("args", 1), T("args", 0), T("int", 0), T("int", 1)}
OutTypes == {typeOfError, typeOfBytes, T("string", 0)}
MethodNames == {<<"M">>, <<"m">>}
MethodPkgPath(name) == IF isExported(name) THEN "" ELSE "app"
ValidMethods ==
    {Method(T("A", 1), Sig(n, MethodPkgPath(n), ps, out)) :
        n \in MethodNames,
        ps \in UNION {[1..k -> ParamTypes] : k \in 0..MaxParams},
        out \in UNION {[1..k -> OutTypes] : k \in 0..MaxOuts}}

\* What a holder may write into a Response it holds: every field, or one.
DirtyResponses ==
    {[Kind |-> RemoteResponse, ServiceMethod |-> <<"A", ".", "M">>, Seq |-> 1, Sid |-> 1,
      Reply |-> <<"x">>, Error |-> <<"e">>, Route |-> <<"r">>, next |-> 1],
     [ZeroResponse EXCEPT !.Error = <<"e">>]}

\* ---------------------------------------------------------- specifications
\* Goroutines are numbered in the order of their first call on the Server.
Turn(p) == IF p = 1 THEN TRUE ELSE pc[p - 1] # "idle" \/ fr[p - 1].op # "none"

registerSteps(p) ==
    \/ registerLock(p)
    \/ registerCheck(p)
    \/ registerInsert(p)
    \/ registerUnlock(p)

\* Concurrent goroutines running every operation of the Server.
Next ==
    \E p \in Procs :
        \/ Turn(p) /\ nops < MaxOps /\ nreg < MaxRegs
              /\ \E rcvr \in AllOpsRcvrs : Register(p, rcvr)
        \/ Turn(p) /\ nops < MaxOps /\ nreg < MaxRegs
              /\ \E name \in ConcNames, rcvr \in AllOpsRcvrs : RegisterName(p, name, rcvr)
        \/ registerSteps(p)
        \/ Turn(p) /\ nops < MaxOps /\ \E c \in ConcCalls : Call(p, c[1], c[2])
        \/ CallLookup(p)
        \/ CallLookupFatal(p)
        \/ HandlerReturn(p)
        \/ HandlerPanic(p)
        \/ Turn(p) /\ nops < MaxOps /\ freeRequest(p)
        \/ freeRequestLock(p)
        \/ freeRequestBody(p)
        \/ Turn(p) /\ nops < MaxOps /\ getResponse(p)
        \/ getResponseLock(p)
        \/ getResponseBody(p)
        \/ getResponseUnlock(p)
        \/ nops < MaxOps /\ \E r \in RespIds : freeResponse(p, r)
        \/ freeResponseLock(p)
        \/ freeResponseBody(p)

Spec == Init /\ [][Next]_vars

\* Concurrent goroutines registering services and dispatching calls.
NextDispatch ==
    \E p \in Procs :
        \/ Turn(p) /\ nops < MaxOps /\ nreg < MaxRegs
              /\ \E rcvr \in ConcRcvrs : Register(p, rcvr)
        \/ Turn(p) /\ nops < MaxOps /\ nreg < MaxRegs
              /\ \E name \in ConcNames, rcvr \in ConcRcvrs : RegisterName(p, name, rcvr)
        \/ registerSteps(p)
        \/ Turn(p) /\ nops < MaxOps /\ \E c \in ConcCalls : Call(p, c[1], c[2])
        \/ CallLookup(p)
        \/ CallLookupFatal(p)
        \/ HandlerReturn(p)
        \/ HandlerPanic(p)

SpecDispatch == Init /\ [][NextDispatch]_vars

\* Concurrent goroutines registering services.
NextReg ==
    \E p \in Procs :
        \/ Turn(p) /\ nreg < MaxRegs /\ \E rcvr \in RegRcvrs : Register(p, rcvr)
        \/ Turn(p) /\ nreg < MaxRegs
              /\ \E name \in RegNames, rcvr \in RegRcvrs : RegisterName(p, name, rcvr)
        \/ registerSteps(p)

SpecReg == Init /\ [][NextReg]_vars

\* The validator applied to one method of any shape, in either namespace.
InitValid ==
    /\ Kind \in {SysRpc, UserRpc}
    /\ serviceMap = <<>>
    /\ mu = NoProc
    /\ reqLock = NoProc
    /\ freeReq = Nil
    /\ reqs = [i \in ReqIds |-> ZeroRequest]
    /\ nreq = 0
    /\ respLock = NoProc
    /\ freeResp = Nil
    /\ resps = [i \in RespIds |-> ZeroResponse]
    /\ nresp = 0
    /\ held = [p \in Procs |-> {}]
    /\ pc = [p \in Procs |-> IF p = 1 THEN "v_call" ELSE "idle"]
    /\ \E m \in ValidMethods :
          fr = [p \in Procs |-> IF p = 1 THEN [op |-> "suitableMethods", methods |-> {m}]
                                ELSE Idle]
    /\ hist = [p \in Procs |-> <<>>]
    /\ nreg = 0
    /\ nops = 0
    /\ crashed = FALSE

NextValid == validate(1)

SpecValid == InitValid /\ [][NextValid]_vars

\* One goroutine registering any receiver under any name.
NextSeq ==
    \/ nreg < MaxRegs /\ \E rcvr \in SeqRcvrs : Register(1, rcvr)
    \/ nreg < MaxRegs /\ \E name \in SeqNames, rcvr \in SeqRcvrs : RegisterName(1, name, rcvr)
    \/ registerSteps(1)

SpecSeq == Init /\ [][NextSeq]_vars

\* One goroutine registering and then calling any route.
NextRoute ==
    \/ nreg < MaxRegs /\ \E r \in RouteRegs : registerEnter(1, r[1], r[2], r[3])
    \/ registerSteps(1)
    \/ \E route \in AllRoutes, args \in ArgLists : Call(1, route, args)
    \/ CallLookup(1)
    \/ HandlerReturn(1)
    \/ HandlerPanic(1)

SpecRoute == Init /\ [][NextRoute]_vars

\* One goroutine registering and then calling the routes of its services with
\* any payload.
NextServe ==
    \/ nreg < MaxRegs /\ \E r \in RouteRegs : registerEnter(1, r[1], r[2], r[3])
    \/ registerSteps(1)
    \/ \E route \in ServedRoutes, args \in ServedArgs : Call(1, route, args)
    \/ CallLookup(1)
    \/ HandlerReturn(1)
    \/ HandlerPanic(1)

SpecServe == Init /\ [][NextServe]_vars

\* Concurrent goroutines using the Response pool and writing what they hold.
NextPool ==
    \E p \in Procs :
        \/ Turn(p) /\ getResponse(p)
        \/ getResponseLock(p)
        \/ getResponseBody(p)
        \/ getResponseUnlock(p)
        \/ \E r \in RespIds, v \in DirtyResponses : writeResponse(p, r, v)
        \/ \E r \in RespIds : freeResponse(p, r)
        \/ freeResponseLock(p)
        \/ freeResponseBody(p)

SpecPool == Init /\ [][NextPool]_vars

\* ------------------------------------------------------------ properties
\* The register calls that have returned: (goroutine, index in its history).
Returned == {c \in Procs \X (1..MaxRegs) : c[2] <= Len(hist[c[1]])}
Entry(c) == hist[c[1]][c[2]]

\* C1 as stated: a register call that resolves to a name already in the
\* registry fails with the duplicate-service error, and the name still maps to
\* the service stored by the registration that succeeded.
C1_DuplicateFails ==
    \A c \in Returned :
        ~Entry(c).fresh =>
            /\ Entry(c).err.site = "DuplicateService"
            /\ Entry(c).sname \in DOMAIN serviceMap
            /\ \E d \in Returned :
                  /\ Entry(d).err = NilErr
                  /\ Entry(d).sname = Entry(c).sname
                  /\ serviceMap[Entry(c).sname] = newService(Kind, Entry(d).rcvr, Entry(d).sname)

\* C1 amended: the call fails with the duplicate-service error, except that a
\* Register (no explicit name) whose derived name is not exported fails with
\* the name-not-exported error; either way the name still maps to the service
\* stored by the registration that succeeded.
C1_DuplicateOrUnexportedFails ==
    \A c \in Returned :
        ~Entry(c).fresh =>
            /\ Entry(c).err.site =
                  IF Entry(c).useName \/ Head(Entry(c).sname) \in UpperChars
                  THEN "DuplicateService" ELSE "NameNotExported"
            /\ Entry(c).sname \in DOMAIN serviceMap
            /\ \E d \in Returned :
                  /\ Entry(d).err = NilErr
                  /\ Entry(d).sname = Entry(c).sname
                  /\ serviceMap[Entry(c).sname] = newService(Kind, Entry(d).rcvr, Entry(d).sname)

\* A second receiver was refused under a registered name as a duplicate.
C1_Witness ==
    \E c \in Returned :
        /\ ~Entry(c).fresh
        /\ Entry(c).err.site = "DuplicateService"
        /\ serviceMap[Entry(c).sname].rcvr # Entry(c).rcvr

\* C10: register fails with the name-not-exported error exactly when no
\* explicit name was given and the non-empty derived name does not start with
\* an upper-case letter; an explicit non-empty name is never refused for that;
\* an empty resulting name fails with the empty-service-name error. (Of the
\* calls whose receiver has a concrete type: the nil receiver panics.)
C10_NameErrors ==
    \A c \in Returned :
        LET e == Entry(c)
            derived == TypeName(IndirectType(e.rcvr))
        IN  e.rcvr # NilRcvr =>
              /\ e.err.site = "NameNotExported"
                    <=> (~e.useName /\ derived # <<>> /\ Head(derived) \notin UpperChars)
              /\ (e.useName /\ e.name # <<>>) => e.err.site # "NameNotExported"
              /\ (IF e.useName THEN e.name = <<>> ELSE derived = <<>>)
                    <=> e.err.site = "EmptyServiceName"

\* An unexported type was refused by Register and accepted by RegisterName
\* under an unexported name, and an empty explicit name was refused.
C10_Witness ==
    /\ \E c \in Returned : ~Entry(c).useName /\ Entry(c).err.site = "NameNotExported"
    /\ \E c \in Returned :
          /\ Entry(c).useName
          /\ Entry(c).name = <<"a">>
          /\ Entry(c).err = NilErr

\* register accepts the name the call resolves to: not empty, and exported
\* unless given explicitly.
NameAccepted(e) == e.sname # <<>> /\ (e.useName \/ Head(e.sname) \in UpperChars)

\* The receiver of the call has at least one suitable method.
HasSuitable(e) == DOMAIN suitableMethods(Kind, e.rcvr.typ, TRUE) # {}

\* c returned, and d was blocked on the lock when c's call took it.
Concurrent(c, d) == c \in Returned /\ d \in Returned /\ d \in Entry(c).conc

\* C2 as stated: of two concurrent register calls for one name not yet
\* registered, each with a suitable receiver, one succeeds and the other fails
\* with the duplicate-service error.
C2_OneSucceedsOthersDuplicate ==
    \A c \in Returned, d \in Returned :
        (/\ Concurrent(c, d)
         /\ Entry(c).sname = Entry(d).sname
         /\ Entry(c).fresh
         /\ HasSuitable(Entry(c)) /\ HasSuitable(Entry(d)))
        => /\ Entry(c).err = NilErr
           /\ Entry(d).err.site = "DuplicateService"

\* C2 amended: of all the register calls for one name that pass the name checks
\* (not empty, exported unless explicit), each with a suitable receiver,
\* exactly one succeeds and every other one fails with the duplicate-service
\* error.
C2_OneAcceptedSucceeds ==
    LET A == {d \in Returned : NameAccepted(Entry(d)) /\ HasSuitable(Entry(d))}
    IN  \A c \in A :
            LET G == {d \in A : Entry(d).sname = Entry(c).sname}
                W == {d \in G : Entry(d).err = NilErr}
            IN  /\ Cardinality(W) = 1
                /\ \A d \in G \ W : Entry(d).err.site = "DuplicateService"

\* Two register calls for one name ran concurrently; one succeeded, the other
\* was refused as a duplicate.
C2_Witness ==
    \E c \in Returned, d \in Returned :
        /\ Concurrent(c, d)
        /\ Entry(c).sname = Entry(d).sname
        /\ Entry(c).err = NilErr
        /\ Entry(d).err.site = "DuplicateService"

\* The names of the register calls other than c, returned or under way.
OtherNames(c) ==
    {Entry(d).sname : d \in Returned \ {c}}
    \cup {ServiceName(fr[q].rcvr, fr[q].name, fr[q].useName) :
             q \in {r \in Procs : pc[r] \in {"r_lock", "r_check", "r_insert", "r_unlock"}}}

\* The route "S.M".
Route(sname, mname) == sname \o <<Sep>> \o mname

\* Call on this route, in the registry as it is, reaches a handler of rcvr.
Resolves(route, rcvr) ==
    /\ Len(Split(route)) = 2
    /\ lookup(serviceMap, Split(route)[1], Split(route)[2]).err = NilErr
    /\ lookup(serviceMap, Split(route)[1], Split(route)[2]).s.rcvr = rcvr

\* C3: a register call with a suitable receiver and a valid name (accepted by
\* register, without separator) that no other register call resolves to
\* succeeds; and every register call that has succeeded finds its service in
\* the registry, every method of it resolvable by Call.
C3_DistinctNamesAllRegistered ==
    \A c \in Returned :
        LET e == Entry(c)
        IN  /\ (/\ NameAccepted(e)
                /\ HasSuitable(e)
                /\ e.sname \notin OtherNames(c)) => e.err = NilErr
            /\ e.err = NilErr =>
                  /\ e.sname \in DOMAIN serviceMap
                  /\ serviceMap[e.sname] = newService(Kind, e.rcvr, e.sname)
                  /\ \A i \in 1..Len(e.sname) : e.sname[i] # Sep
                        => \A m \in DOMAIN serviceMap[e.sname].method :
                              Resolves(Route(e.sname, m), e.rcvr)

\* Two concurrent register calls with distinct names have both succeeded.
C3_Witness ==
    \E c \in Returned, d \in Returned :
        /\ Concurrent(c, d)
        /\ Entry(c).sname # Entry(d).sname
        /\ Entry(c).err = NilErr
        /\ Entry(d).err = NilErr
        /\ Cardinality(DOMAIN serviceMap) = 2

\* C4: Call never reads serviceMap while a register call holds server.mu.
C4_LookupNotUnderWriteLock ==
    [][\A p \in Procs : (pc[p] = "c_lookup" /\ pc'[p] # "c_lookup") => mu = NoProc]_vars

\* C5: the Response getResponse is about to return has every field at its
\* zero value, whether allocated or taken from the free list.
C5_ResponseZeroed ==
    \A p \in Procs : pc[p] = "g_unlock" => resps[fr[p].resp] = ZeroResponse

\* getResponse returns a recycled Response whose holder had written it.
C5_Witness ==
    \E p \in Procs :
        /\ pc[p] = "g_unlock"
        /\ fr[p].recycled
        /\ fr[p].prev.Kind # 0
        /\ fr[p].prev.Error # <<>>

\* The Call results the goroutines hold.
CallsReturned == {p \in Procs : pc[p] = "idle" /\ fr[p].op = "Call"}

\* The number of separators in a route.
RECURSIVE SepCount(_)
SepCount(s) == IF s = <<>> THEN 0 ELSE (IF Head(s) = Sep THEN 1 ELSE 0) + SepCount(Tail(s))

\* Two non-empty segments around one separator.
WellFormed(route) ==
    /\ SepCount(route) = 1
    /\ Head(route) # Sep
    /\ route[Len(route)] # Sep

\* C6 as stated: Call fails with the invalid-route-format error for every
\* route that is not two non-empty segments around a single separator.
C6_MalformedRouteRejected ==
    \A p \in CallsReturned :
        ~WellFormed(fr[p].route) => fr[p].err.site = "InvalidRouteFormat"

\* C6 amended: Call fails with the invalid-route-format error exactly for the
\* routes that do not hold exactly one separator; a route with one separator
\* and an empty segment fails with the service-not-found or the
\* method-not-found error.
C6_SeparatorCountRejected ==
    \A p \in CallsReturned :
        /\ fr[p].err.site = "InvalidRouteFormat" <=> SepCount(fr[p].route) # 1
        /\ (SepCount(fr[p].route) = 1 /\ ~WellFormed(fr[p].route))
              => fr[p].err.site \in {"ServiceNotFound", "MethodNotFound"}

\* A route with an empty method segment got past the format check and failed
\* at the method lookup of a registered service.
C6_Witness ==
    \E p \in CallsReturned :
        /\ fr[p].route = <<"A", ".">>
        /\ fr[p].err.site = "MethodNotFound"

\* The segments of a well-formed route.
SepAt(route) == CHOOSE i \in 1..Len(route) : route[i] = Sep
ServiceOf(route) == SubSeq(route, 1, SepAt(route) - 1)
MethodOf(route) == SubSeq(route, SepAt(route) + 1, Len(route))

\* The method names validated for the receiver registered under sname.
Validated(sname) ==
    {m.Name : m \in {x \in MethodSet(serviceMap[sname].rcvr.typ) :
                        IF Kind = SysRpc THEN SysSuitable(x) ELSE UserSuitable(x)}}

\* C7: on a well-formed route "S.M", a Call that returns fails with the
\* service-not-found error iff S is not registered, with the method-not-found
\* error iff S is registered and M is not one of its validated methods, and
\* has invoked a handler and returns a nil error iff S is registered and M is
\* one of them.
C7_LookupOutcome ==
    \A p \in CallsReturned :
        LET S == ServiceOf(fr[p].route)
            M == MethodOf(fr[p].route)
        IN  (WellFormed(fr[p].route) /\ fr[p].err # Panic) =>
              /\ fr[p].err.site = "ServiceNotFound" <=> S \notin DOMAIN serviceMap
              /\ fr[p].err.site = "MethodNotFound"
                    <=> (S \in DOMAIN serviceMap /\ M \notin Validated(S))
              /\ (fr[p].err = NilErr /\ fr[p].invoked = 1)
                    <=> (S \in DOMAIN serviceMap /\ M \in Validated(S))

\* A call on a well-formed route was served by a registered service.
C7_Witness ==
    \E p \in CallsReturned :
        /\ WellFormed(fr[p].route)
        /\ ServiceOf(fr[p].route) \in DOMAIN serviceMap
        /\ fr[p].err = NilErr
        /\ fr[p].invoked = 1

\* C8: a Call that returns an error has invoked no handler, a Call that
\* returns a nil error has invoked one handler once, and no handler is invoked
\* while the checks of a Call are still to be made.
C8_NoHandlerBeforeChecks ==
    /\ \A p \in CallsReturned :
          /\ fr[p].err.site \in {"InvalidRouteFormat", "ServiceNotFound", "MethodNotFound"}
                => fr[p].invoked = 0
          /\ fr[p].err = NilErr => fr[p].invoked = 1
    /\ \A p \in Procs : pc[p] = "c_lookup" => fr[p].invoked = 0
    /\ \A p \in Procs : pc[p] = "c_handler" => fr[p].invoked = 1

\* One Call has returned the method-not-found error and another a nil error.
C8_Witness ==
    /\ \E p \in CallsReturned : fr[p].err.site = "MethodNotFound"
    /\ \E p \in CallsReturned : fr[p].err = NilErr /\ fr[p].invoked = 1

\* The lock goroutine q is waiting for, or NoProc's lock if it is not waiting.
WaitsFor(q) ==
    CASE pc[q] = "r_lock" -> mu
      [] pc[q] = "q_lock" -> reqLock
      [] pc[q] \in {"g_lock", "f_lock"} -> respLock
      [] OTHER -> NoProc

\* The next step of goroutine q in the operation it runs.
Step(q) ==
    \/ registerSteps(q)
    \/ CallLookup(q)
    \/ freeRequestLock(q) \/ freeRequestBody(q)
    \/ getResponseLock(q) \/ getResponseBody(q) \/ getResponseUnlock(q)
    \/ freeResponseLock(q) \/ freeResponseBody(q)

\* C9: a goroutine running a handler holds none of mu, reqLock, respLock; so
\* every other goroutine inside an operation can take its next step, or waits
\* for a lock whose holder is not the handler's goroutine and can.
C9_HandlerHoldsNoLock ==
    \A p \in Procs :
        pc[p] = "c_handler" =>
            /\ mu # p /\ reqLock # p /\ respLock # p
            /\ \A q \in Procs \ {p} :
                  pc[q] \notin {"idle", "c_handler"} =>
                      \/ ENABLED Step(q)
                      \/ WaitsFor(q) \notin {NoProc, p} /\ ENABLED Step(WaitsFor(q))

\* A handler runs while another goroutine is inside register with the lock.
C9_Witness ==
    \E p \in Procs, q \in Procs :
        /\ pc[p] = "c_handler"
        /\ pc[q] = "r_check"
        /\ mu = q

\* The validator runs that have returned, and the one method each was given.
ValidatorRuns == {p \in Procs : pc[p] = "idle" /\ fr[p].op = "suitableMethods"}
Given(p) == CHOOSE m \in fr[p].methods : TRUE
Admitted(p) == Given(p).Name \in DOMAIN fr[p].result

\* A type is exported-or-builtin: under its pointers, its name is upper case
\* or it belongs to no package.
ExportedOrBuiltin(t) == isExported(BaseName(t.base)) \/ BasePkg(t.base) = ""

C12_RepliesArePointers ==
    Kind = SysRpc =>
        \A sname \in DOMAIN serviceMap :
            \A mname \in DOMAIN serviceMap[sname].method :
                KindIsPtr(serviceMap[sname].method[mname].ReplyType)

\* C14: NumCalls of a method descriptor counts the successful dispatches to
\* it: once a Call that resolved to the descriptor has invoked its handler and
\* returned a nil error, k is at least 1 and so is NumCalls.
C14_NumCallsCounts ==
    \A p \in CallsReturned :
        (WellFormed(fr[p].route) /\ fr[p].err = NilErr /\ fr[p].invoked = 1) =>
            NumCalls(serviceMap[ServiceOf(fr[p].route)].method[MethodOf(fr[p].route)]) >= 1

\* C15: the registry is monotonic: no step of any register or Call, failed or
\* not, removes a registered name or changes the service (receiver, method
\* set) it is bound to.
C15_RegistryMonotonic ==
    [][\A sname \in DOMAIN serviceMap :
           /\ sname \in DOMAIN serviceMap'
           /\ serviceMap'[sname] = serviceMap[sname]]_vars

\* A register call succeeded, another was refused as a duplicate and a Call was
\* served; the name is still bound to the receiver of the first.
C15_Witness ==
    \E c \in Returned, d \in Returned :
        /\ Entry(c).err = NilErr
        /\ Entry(d).err.site = "DuplicateService"
        /\ \E p \in CallsReturned : fr[p].err = NilErr
        /\ serviceMap[Entry(c).sname].rcvr = Entry(c).rcvr
        /\ serviceMap[Entry(c).sname].method = suitableMethods(Kind, Entry(c).rcvr.typ, TRUE)

\* The goroutines inside a register call that returns an error.
Failing == {p \in Procs : pc[p] \in {"r_check", "r_unlock"} /\ fr[p].op = "register"
                          /\ "err" \in DOMAIN fr[p] /\ fr[p].err # NilErr}

\* A goroutine's register call i was refused for having no suitable method.
Unsuitable(p, i) == hist[p][i].err.site = "NoSuitableMethods"

\* Its later call j is for the name of call i, with an accepted name and a
\* suitable receiver, and no call of the goroutine in between took the name.
Retry(p, i, j) ==
    /\ i < j
    /\ hist[p][j].sname = hist[p][i].sname
    /\ NameAccepted(hist[p][j]) /\ HasSuitable(hist[p][j])
    /\ \A k \in (i + 1)..(j - 1) : hist[p][k].err # NilErr

NotReserved ==
    \A p \in Procs : \A i \in 1..Len(hist[p]), j \in 1..Len(hist[p]) :
        (Unsuitable(p, i) /\ Retry(p, i, j)) => hist[p][j].err = NilErr

\* C16: the service map changes only in the insertion of a register call that
\* returns nil, so a register call that returns an error (empty name, name not
\* exported, duplicate, no suitable methods) leaves it as it was; and after a
\* call refused for having no suitable method, a later register of a suitable
\* receiver under that name succeeds.
C16_FailedRegisterNoEffect ==
    [][/\ serviceMap' # serviceMap =>
              \E p \in Procs : pc[p] = "r_insert" /\ fr[p].err = NilErr /\ pc'[p] = "r_unlock"
       /\ \A p \in Failing' : serviceMap' = serviceMap
       /\ NotReserved']_vars

\* A register call was refused for having no suitable method and the next one,
\* under the same name, succeeded.
C16_Witness ==
    \E p \in Procs : \E i \in 1..Len(hist[p]), j \in 1..Len(hist[p]) :
        /\ Unsuitable(p, i)
        /\ Retry(p, i, j)
        /\ hist[p][j].err = NilErr
        /\ hist[p][j].sname \in DOMAIN serviceMap

\* The register call that stored the service named sname.
Registration(sname) ==
    Entry(CHOOSE c \in Returned : Entry(c).sname = sname /\ Entry(c).err = NilErr)

\* C17: a Call on "S.M" that returns a nil error has invoked the method M
\* validated when S was registered, on the receiver of that registration
\* followed by the caller's arguments in their order, and returns what that
\* handler returned; a handler that returns its payload makes Call return
\* (payload, nil), whatever the payload.
C17_CallInvokesRegistered ==
    \A p \in CallsReturned :
        (WellFormed(fr[p].route) /\ fr[p].err = NilErr) =>
            LET S == ServiceOf(fr[p].route)
                M == MethodOf(fr[p].route)
                reg == Registration(S)
                method == suitableMethods(Kind, reg.rcvr.typ, TRUE)[M].method
            IN  /\ fr[p].called.method = method
                /\ fr[p].called.in = <<reg.rcvr>> \o fr[p].args
                /\ fr[p].rets = Handler(method, <<reg.rcvr>> \o fr[p].args)
                /\ (reg.rcvr = RcvD /\ Len(fr[p].args) = 1)
                      => fr[p].rets = <<fr[p].args[1], NilErr>>

\* With two services registered, a Call with the empty payload on the handler
\* that returns its payload has returned (empty payload, nil).
C17_Witness ==
    \E p \in CallsReturned :
        /\ Cardinality(DOMAIN serviceMap) = 2
        /\ fr[p].route = <<"M", ".", "M">>
        /\ fr[p].args = << <<>> >>
        /\ fr[p].err = NilErr
        /\ fr[p].rets = << <<>>, NilErr >>

\* C18: the Response pool is a LIFO free list. getResponse allocates a new
\* Response iff the list is empty when it looks, and otherwise takes the head,
\* leaving the rest; freeResponse makes the released Response the head, before
\* the list as it was; nothing else changes the list.
C18_PoolLIFO ==
    [][\A p \in Procs :
          /\ (pc[p] = "g_body" /\ pc'[p] = "g_unlock") =>
                IF FreeList = <<>>
                THEN /\ nresp' = nresp + 1
                     /\ fr'[p].resp = nresp'
                     /\ FreeList' = <<>>
                ELSE /\ nresp' = nresp
                     /\ fr'[p].resp = Head(FreeList)
                     /\ FreeList' = Tail(FreeList)
          /\ (pc[p] = "f_body" /\ pc'[p] = "idle") => FreeList' = <<fr[p].resp>> \o FreeList
          /\ (\A q \in Procs : pc[q] \notin {"g_body", "f_body"}) => FreeList' = FreeList]_vars

\* getResponse has taken the head of a free list of two Responses.
C18_Witness ==
    \E p \in Procs :
        /\ pc[p] = "g_unlock"
        /\ fr[p].recycled
        /\ Len(FreeList) = 1

\* The Responses goroutine p has: those it got and has not released, the one
\* its getResponse is returning, the one its freeResponse has not yet pushed.
Owned(p) ==
    held[p] \cup (IF pc[p] \in {"g_unlock", "f_lock", "f_body"} THEN {fr[p].resp} ELSE {})

\* The Responses in the free list.
Free == {FreeList[i] : i \in 1..Len(FreeList)}

\* C19: in every interleaving of getResponse and freeResponse calls in which
\* holders release what they hold, once, no Response is held by two
\* goroutines, no held Response is in the free list, and the free list is
\* acyclic, no Response being in it twice.
C19_PoolExclusive ==
    /\ \A p \in Procs, q \in Procs : p # q => Owned(p) \cap Owned(q) = {}
    /\ \A p \in Procs : Owned(p) \cap Free = {}
    /\ Len(FreeList) <= nresp
    /\ Cardinality(Free) = Len(FreeList)

\* One goroutine holds a Response while another takes one from the free list.
C19_Witness ==
    \E p \in Procs, q \in Procs :
        /\ p # q
        /\ held[p] # {}
        /\ pc[q] = "g_unlock"
        /\ fr[q].recycled

\* The scheduler lets every goroutine that can take the next step of its
\* register, Call lookup or pool operation take it; a handler may never return.
FairSpec == Spec /\ \A p \in Procs : WF_vars(Step(p))

\* Goroutine p is inside a register call or a pool operation.
InOperation(p) ==
    pc[p] \in {"r_lock", "r_check", "r_insert", "r_unlock", "q_lock", "q_body",
               "g_lock", "g_body", "g_unlock", "f_lock", "f_body"}

\* The locks of the Server that goroutine p holds.
LocksOf(p) ==
    (IF mu = p THEN {"mu"} ELSE {}) \cup (IF reqLock = p THEN {"reqLock"} ELSE {})
        \cup (IF respLock = p THEN {"respLock"} ELSE {})

\* C20: the core is deadlock-free: an operation that has returned holds no
\* lock, no goroutine holds two locks at once, and under fair scheduling every
\* register call and pool operation that has started returns, whatever
\* register, Call and pool operations run concurrently.
C20_OperationsReturn ==
    /\ [](\A p \in Procs : /\ pc[p] = "idle" => LocksOf(p) = {}
                           /\ Cardinality(LocksOf(p)) <= 1)
    /\ \A p \in Procs : InOperation(p) ~> (pc[p] = "idle")

====
